---- MODULE Spec2Model ----
(***************************************************************************)
(* Authentication core of e-commercer-api: the two request-gating          *)
(* middlewares (CheckLoggedIn, ConfirmPassword), the session service they  *)
(* call and the session/OTP store behind it.                               *)
(*                                                                         *)
(* One request at a time walks through a middleware, one statement of the  *)
(* handler per step, while the environment (clock, logins, evictions,      *)
(* email confirmations) moves between the steps.  A call that leaves the   *)
(* process (key file, store, status lookup) may fail at any call.          *)
(***************************************************************************)
EXTENDS Integers, Sequences, FiniteSets

\* ------------------------------------------------------------------ bounds
MaxClock == 2
MaxIssued == 2
TokenValidity == MaxClock - 1
OTPTTL == MaxClock - 1

\* ------------------------------------------------------- program constants
StatusUnauthorized == 401
StatusForbidden == 403
StatusInternalServerError == 500
StatusBadRequest == 400
StatusUnprocessableEntity == 422
StatusOK == 200
StatusNoContent == 204

UserKey == "user"

ErrTokenInvalid == "invalid token"
ErrSessionNotFound == "token not found"
ErrorUnexpectedMethod == "unexpected signing method"
ErrOTPNotFound == "OTP not found"
\* not sentinels of the repository: failures raised by the collaborators
ErrStoreUnavailable == "store unavailable"
ErrEmailNotConfirmed == "email not confirmed"
ErrLookupFailed == "status lookup failed"
ErrTokenMalformed == "token is malformed"
ErrTokenExpired == "token is expired"
ErrSignatureInvalid == "signature is invalid"

VARIABLES clock, sessions, issued, confirmed,
          otps, lastOTP, otpRes, rq, first, sh

envVars == <<clock, sessions, issued, confirmed>>
otpVars == <<otps, lastOTP, otpRes>>
\* first: the finished CheckLoggedIn run of the request ConfirmPassword is
\* being given; sh: a call of the store handler behind the middleware.
sideVars == <<first, sh>>
vars == <<clock, sessions, issued, confirmed,
          otps, lastOTP, otpRes, rq, first, sh>>

\* ------------------------------------------------------------------- users
UserIDs == {1, 2}
EmailOf(id) == <<"mail", id>>
User(id) == [ID |-> id, Name |-> <<"name", id>>, Email |-> EmailOf(id),
             AvatarURL |-> <<"avatar", id>>]
Emails == {EmailOf(id) : id \in UserIDs}

\* ------------------------------------------------------------------ tokens
\* A bearer token: subject, issued-at, expiry, the signing method named in
\* its header, who signed it, and a serial standing for the randomness of an
\* ECDSA signature (two signatures over one payload differ).
NoToken == [sub |-> 0, iat |-> 0, exp |-> 0, alg |-> "none",
            sig |-> "malformed", n |-> 0]

Issue(subjectID, now, serial) ==
    [sub |-> subjectID, iat |-> now, exp |-> now + TokenValidity,
     alg |-> "ES256", sig |-> "ours", n |-> serial]

\* jwt.Parse with the key function of the middleware: segments, signing
\* method, claims (expiry), signature.  A token is expired once its expiry
\* is not after now.
Verify(t, now) ==
    IF t.sig = "malformed" THEN ErrTokenMalformed
    ELSE IF t.alg # "ES256" THEN ErrorUnexpectedMethod
    ELSE IF t.exp <= now THEN ErrTokenExpired
    ELSE IF t.sig # "ours" THEN ErrSignatureInvalid
    ELSE "ok"

\* What a client can put in a header: tokens it was given, and tokens it
\* makes without the private key (any payload, either signing method), and
\* a string that is no token.
ForgedTokens ==
    {[sub |-> id, iat |-> 0, exp |-> MaxClock + 1, alg |-> a,
      sig |-> "forged", n |-> 0] : id \in {1}, a \in {"ES256", "HS256"}}

Presentable == issued \cup ForgedTokens \cup {NoToken}

\* --------------------------------------------------------------- sessions
Session(u, tok) ==
    [Token |-> tok, Name |-> u.Name, UserID |-> u.ID, Email |-> u.Email,
     AvatarURL |-> u.AvatarURL]

NoSession == [Token |-> NoToken, Name |-> <<"name", 0>>, UserID |-> 0,
              Email |-> EmailOf(0), AvatarURL |-> <<"avatar", 0>>]

\* ------------------------------------------------------------------- store
\* The key-value store as a set of entries [key, val, exp]; an entry is live
\* while exp > clock.
Entries(store, k) == {e \in store : e.key = k}
Live(store, now) == {e \in store : e.exp > now}

Put(store, k, v, ttl, now) ==
    (store \ Entries(store, k)) \cup {[key |-> k, val |-> v, exp |-> now + ttl]}

Delete(store, k) == store \ Entries(store, k)

\* A write that leaves the entries already stored under the key in place.
PutSessionIfAbsent(store, id, session, ttl, now) ==
    IF Entries(store, id) # {} THEN store
    ELSE store \cup {[key |-> id, val |-> session, exp |-> now + ttl]}
PutOTPAppend(store, email, code, ttl, now) ==
    store \cup {[key |-> email, val |-> code, exp |-> now + ttl]}

\* PutSession(subjectID, session, ttl) and PutOTP(email, code, ttl): upserts.
PutSession(store, id, session, ttl, now) == Put(store, id, session, ttl, now)
PutOTP(store, email, code, ttl, now) == Put(store, email, code, ttl, now)

\* --------------------------------------------------------- session service
\* GetUser(token): verify the token, then resolve the session stored under
\* the verified subject.  The set of results the call can produce: the
\* store may be unreachable at any call.
Result(err, s) == [err |-> err, session |-> s]

GetUser(t, store, now) ==
    IF Verify(t, now) # "ok" THEN {Result(ErrTokenInvalid, NoSession)}
    ELSE {Result(ErrStoreUnavailable, NoSession)}
         \cup (IF Entries(Live(store, now), t.sub) = {}
               THEN {Result(ErrSessionNotFound, NoSession)}
               ELSE {Result("ok", e.val) : e \in Entries(Live(store, now), t.sub)})

\* Create(user): issue a token, store the session under the subject with a
\* TTL equal to the token's validity; the token is returned only when the
\* store write succeeded.
Create(id, stored) ==
    /\ Cardinality(issued) < MaxIssued
    /\ LET tok == Issue(id, clock, Cardinality(issued) + 1) IN
         IF stored
         THEN /\ sessions' = PutSession(sessions, id, Session(User(id), tok),
                                        TokenValidity, clock)
              /\ issued' = issued \cup {tok}
         ELSE UNCHANGED <<sessions, issued>>
    /\ UNCHANGED <<clock, confirmed, otps, lastOTP, otpRes, rq, sideVars>>

\* DeleteSession(subjectID): logout or eviction of the stored session.
DeleteSession(id) ==
    /\ Entries(sessions, id) # {}
    /\ sessions' = Delete(sessions, id)
    /\ UNCHANGED <<clock, issued, confirmed,
                   otps, lastOTP, otpRes, rq, sideVars>>

\* ------------------------------------------------------------- environment
\* Time passes; the store drops the entries whose TTL has run out.
Tick ==
    /\ clock < MaxClock
    /\ clock' = clock + 1
    /\ sessions' = Live(sessions, clock + 1)
    /\ otps' = Live(otps, clock + 1)
    /\ UNCHANGED <<issued, confirmed, lastOTP,
                   otpRes, rq, sideVars>>

\* A user confirms the email address.
ConfirmEmail(id) ==
    /\ id \notin confirmed
    /\ confirmed' = confirmed \cup {id}
    /\ UNCHANGED <<clock, sessions, issued,
                   otps, lastOTP, otpRes, rq, sideVars>>

\* CheckEmailConfirmation(email): nil, the not-confirmed failure, or a
\* failure of the lookup itself.
CheckEmailConfirmation(email) ==
    {ErrLookupFailed}
    \cup (IF \E id \in confirmed : EmailOf(id) = email
          THEN {"ok"} ELSE {ErrEmailNotConfirmed})

\* -------------------------------------------------------------- middleware
Problem(status, title, detail) ==
    [status |-> status, title |-> title, detail |-> detail]
NoResponse == Problem(0, "", "")

\* The Authorization header of a request.
Header(present, wellFormed, tok) ==
    [present |-> present, wellFormed |-> wellFormed, tok |-> tok]
Headers ==
    {Header(FALSE, FALSE, NoToken)}
    \cup {Header(TRUE, FALSE, NoToken)}
    \cup {Header(TRUE, TRUE, t) : t \in Presentable}

\* util.LoadPublicKey(config.Env.SecretKeyPath): whether the key file could
\* be read and parsed at this call.
LoadPublicKey == BOOLEAN

\* util.ExtractToken: the token of a well-formed bearer header.
ExtractToken(h) ==
    IF h.present /\ h.wellFormed THEN Result("ok", h.tok)
    ELSE Result(ErrTokenInvalid, NoToken)

Variants == {"CheckLoggedIn", "ConfirmPassword"}

\* A request in a middleware: where it stands (pc), the locals of the
\* handler, the response written, the values of the request context, the
\* calls of next and what next found under UserKey, and the calls made so far.
NoRequest ==
    [variant |-> "CheckLoggedIn", header |-> Header(FALSE, FALSE, NoToken),
     pc |-> "idle", tokenString |-> NoToken, user |-> NoSession,
     resp |-> NoResponse, ctx |-> {}, nextCalls |-> 0, nextSaw |-> {},
     log |-> <<>>]

NewRequest(v, h) ==
    /\ rq.pc \in {"idle", "done"}
    /\ rq' = [NoRequest EXCEPT !.variant = v, !.header = h, !.pc = "header"]
    /\ UNCHANGED <<envVars, otpVars, sideVars>>

At(v, pc) == rq.variant = v /\ rq.pc = pc

\* return ctx.JSON(status, problem)
Reject(step, outcome, p) ==
    rq' = [rq EXCEPT !.pc = "done", !.resp = p,
                     !.log = Append(@, <<step, outcome>>)]

Proceed(step, pc) ==
    rq' = [rq EXCEPT !.pc = pc, !.log = Append(@, <<step, "ok">>)]

\* next(ctx) without the identity attached to the request context.
AdmitWithoutIdentity ==
    rq' = [rq EXCEPT !.pc = "done", !.nextCalls = @ + 1,
                     !.nextSaw = {d[2] : d \in {x \in rq.ctx : x[1] = UserKey}},
                     !.log = Append(@, <<"next", "ok">>)]

\* ctx.SetRequest(... context.WithValue(..., UserKey, user)); return next(ctx)
Admit ==
    LET c == {d \in rq.ctx : d[1] # UserKey} \cup {<<UserKey, rq.user>>} IN
      rq' = [rq EXCEPT !.pc = "done", !.ctx = c,
                       !.nextCalls = @ + 1,
                       !.nextSaw = {d[2] : d \in {x \in c : x[1] = UserKey}},
                       !.log = Append(@, <<"next", "ok">>)]

\* ---- CheckLoggedIn
\* The header is not looked at before the token is extracted.
CheckLoggedInHeaderUnchecked ==
    /\ At("CheckLoggedIn", "header")
    /\ Proceed("header", "extract")
    /\ UNCHANGED <<envVars, otpVars, sideVars>>

CheckLoggedInHeader ==
    /\ At("CheckLoggedIn", "header")
    /\ IF ~rq.header.present
       THEN Reject("header", "missing",
                   Problem(StatusUnauthorized, "Access Denied",
                           "You need to be logged in to access this resource."))
       ELSE Proceed("header", "extract")
    /\ UNCHANGED <<envVars, otpVars, sideVars>>

CheckLoggedInExtract ==
    /\ At("CheckLoggedIn", "extract")
    /\ LET r == ExtractToken(rq.header) IN
         IF r.err # "ok"
         THEN Reject("extract", r.err,
                     Problem(StatusUnauthorized, "Invalid Session",
                             "Your session is invalid or missing. Please log in again."))
         ELSE rq' = [rq EXCEPT !.pc = "loadkey", !.tokenString = r.session,
                               !.log = Append(@, <<"extract", "ok">>)]
    /\ UNCHANGED <<envVars, otpVars, sideVars>>

CheckLoggedInLoadKey(keyLoaded) ==
    /\ At("CheckLoggedIn", "loadkey")
    /\ IF ~keyLoaded
       THEN Reject("loadkey", "key load failed",
                   Problem(StatusInternalServerError, "Internal Server Error",
                           "Failed to load public key for token verification."))
       ELSE Proceed("loadkey", "parse")
    /\ UNCHANGED <<envVars, otpVars, sideVars>>

\* The key function hands out the key without looking at the signing
\* method, so a token of another method made with the public key verifies.
CheckLoggedInParseAnyMethod ==
    /\ At("CheckLoggedIn", "parse")
    /\ LET err == Verify(rq.tokenString, clock) IN
         IF err \notin {"ok", ErrorUnexpectedMethod}
         THEN Reject("parse", err,
                     Problem(StatusUnauthorized, "Invalid Session",
                             "Your session is invalid. Please log in again."))
         ELSE Proceed("parse", "getuser")
    /\ UNCHANGED <<envVars, otpVars, sideVars>>

CheckLoggedInParse ==
    /\ At("CheckLoggedIn", "parse")
    /\ LET err == Verify(rq.tokenString, clock) IN
         IF err # "ok"
         THEN Reject("parse", err,
                     Problem(StatusUnauthorized, "Invalid Session",
                             "Your session is invalid. Please log in again."))
         ELSE Proceed("parse", "getuser")
    /\ UNCHANGED <<envVars, otpVars, sideVars>>

\* Every failure of GetUser answered alike, ErrSessionNotFound not told apart.
CheckLoggedInGetUserNoSentinel ==
    /\ At("CheckLoggedIn", "getuser")
    /\ \E r \in GetUser(rq.tokenString, sessions, clock) :
         IF r.err # "ok"
         THEN Reject("getuser", r.err,
                     Problem(StatusUnauthorized, "Unauthorized Access",
                             "Your session is invalid. Please log in again."))
         ELSE rq' = [rq EXCEPT !.pc = "status", !.user = r.session,
                               !.log = Append(@, <<"getuser", "ok">>)]
    /\ UNCHANGED <<envVars, otpVars, sideVars>>

CheckLoggedInGetUser ==
    /\ At("CheckLoggedIn", "getuser")
    /\ \E r \in GetUser(rq.tokenString, sessions, clock) :
         IF r.err # "ok"
         THEN IF r.err = ErrSessionNotFound
              THEN Reject("getuser", r.err,
                          Problem(StatusForbidden, "Session Expired",
                                  "Your session has expired. Please log in again to continue."))
              ELSE Reject("getuser", r.err,
                          Problem(StatusUnauthorized, "Unauthorized Access",
                                  "Your session is invalid. Please log in again."))
         ELSE rq' = [rq EXCEPT !.pc = "status", !.user = r.session,
                               !.log = Append(@, <<"getuser", "ok">>)]
    /\ UNCHANGED <<envVars, otpVars, sideVars>>

\* The email-confirmation check left out, as in ConfirmPassword.
CheckLoggedInStatusSkipped ==
    /\ At("CheckLoggedIn", "status")
    /\ rq' = [rq EXCEPT !.pc = "admit"]
    /\ UNCHANGED <<envVars, otpVars, sideVars>>

CheckLoggedInStatus ==
    /\ At("CheckLoggedIn", "status")
    /\ \E err \in CheckEmailConfirmation(rq.user.Email) :
         IF err # "ok"
         THEN Reject("status", err,
                     Problem(StatusForbidden, "Email Not Confirmed",
                             "You need to confirm your email address before accessing this resource."))
         ELSE Proceed("status", "admit")
    /\ UNCHANGED <<envVars, otpVars, sideVars>>

CheckLoggedInAdmit ==
    /\ At("CheckLoggedIn", "admit")
    /\ Admit
    /\ UNCHANGED <<envVars, otpVars, sideVars>>

CheckLoggedIn ==
    \/ CheckLoggedInHeader
    \/ CheckLoggedInExtract
    \/ \E keyLoaded \in LoadPublicKey : CheckLoggedInLoadKey(keyLoaded)
    \/ CheckLoggedInParse
    \/ CheckLoggedInGetUser
    \/ CheckLoggedInStatus
    \/ CheckLoggedInAdmit

\* ---- ConfirmPassword
ConfirmPasswordHeader ==
    /\ At("ConfirmPassword", "header")
    /\ IF ~rq.header.present
       THEN Reject("header", "missing",
                   Problem(StatusUnauthorized, "Access Denied",
                           "You need to be logged in to access this resource."))
       ELSE Proceed("header", "extract")
    /\ UNCHANGED <<envVars, otpVars, sideVars>>

ConfirmPasswordExtract ==
    /\ At("ConfirmPassword", "extract")
    /\ LET r == ExtractToken(rq.header) IN
         IF r.err # "ok"
         THEN Reject("extract", r.err,
                     Problem(StatusUnauthorized, "Invalid Session",
                             "Your session is invalid or missing. Please log in again."))
         ELSE rq' = [rq EXCEPT !.pc = "loadkey", !.tokenString = r.session,
                               !.log = Append(@, <<"extract", "ok">>)]
    /\ UNCHANGED <<envVars, otpVars, sideVars>>

ConfirmPasswordLoadKey(keyLoaded) ==
    /\ At("ConfirmPassword", "loadkey")
    /\ IF ~keyLoaded
       THEN Reject("loadkey", "key load failed",
                   Problem(StatusInternalServerError, "Internal Server Error",
                           "Failed to verify your account."))
       ELSE Proceed("loadkey", "parse")
    /\ UNCHANGED <<envVars, otpVars, sideVars>>

ConfirmPasswordParse ==
    /\ At("ConfirmPassword", "parse")
    /\ LET err == Verify(rq.tokenString, clock) IN
         IF err # "ok"
         THEN Reject("parse", err,
                     Problem(StatusUnauthorized, "Invalid Session",
                             "Your session is invalid. Please log in again."))
         ELSE Proceed("parse", "getuser")
    /\ UNCHANGED <<envVars, otpVars, sideVars>>

\* The error of GetUser dropped: the handler goes on with what it was given.
ConfirmPasswordGetUserErrIgnored ==
    /\ At("ConfirmPassword", "getuser")
    /\ \E r \in GetUser(rq.tokenString, sessions, clock) :
         rq' = [rq EXCEPT !.pc = "admit", !.user = r.session,
                          !.log = Append(@, <<"getuser", r.err>>)]
    /\ UNCHANGED <<envVars, otpVars, sideVars>>

ConfirmPasswordGetUser ==
    /\ At("ConfirmPassword", "getuser")
    /\ \E r \in GetUser(rq.tokenString, sessions, clock) :
         IF r.err # "ok"
         THEN IF r.err = ErrSessionNotFound
              THEN Reject("getuser", r.err,
                          Problem(StatusForbidden, "Session Expired",
                                  "Your session has expired. Please log in again to continue."))
              ELSE Reject("getuser", r.err,
                          Problem(StatusUnauthorized, "Unauthorized Access",
                                  "Your session is invalid. Please log in again."))
         ELSE rq' = [rq EXCEPT !.pc = "admit", !.user = r.session,
                               !.log = Append(@, <<"getuser", "ok">>)]
    /\ UNCHANGED <<envVars, otpVars, sideVars>>

ConfirmPasswordAdmit ==
    /\ At("ConfirmPassword", "admit")
    /\ Admit
    /\ UNCHANGED <<envVars, otpVars, sideVars>>

ConfirmPassword ==
    \/ ConfirmPasswordHeader
    \/ ConfirmPasswordExtract
    \/ \E keyLoaded \in LoadPublicKey : ConfirmPasswordLoadKey(keyLoaded)
    \/ ConfirmPasswordParse
    \/ ConfirmPasswordGetUser
    \/ ConfirmPasswordAdmit

\* ----------------------------------------------------------- store handler
\* A call of storeHandler.UpdateName or storeHandler.Delete: where it stands,
\* the problem or status written, how often the store service was called,
\* and the calls made so far.
NoCall ==
    [op |-> "UpdateName", pc |-> "idle", resp |-> NoResponse, code |-> 0,
     executed |-> 0, log |-> <<>>]

\* userService.CheckStatus(ctx): the status of the user the context carries
\* under UserKey: nil, the not-confirmed failure, or another failure (no
\* user in the context, the lookup itself failing).
CheckStatus(ctx) ==
    LET ids == {c[2].UserID : c \in {x \in ctx : x[1] = UserKey}} IN
      {ErrLookupFailed}
      \cup (IF ids = {} THEN {}
            ELSE IF ids \subseteq confirmed THEN {"ok"}
            ELSE {ErrEmailNotConfirmed})

InvalidRequest(status, detail) == Problem(status, "Invalid Request", detail)
IncompleteData ==
    "The data provided is incorrect or incomplete. Please verify and try again."
TryAgainLater ==
    "Oops! Something went wrong while processing your request. Please try again later."
ConfirmYourEmail == "You need to confirm your email to use this feature"
ServerError ==
    Problem(StatusInternalServerError, "Internal Server Error", TryAgainLater)

\* The handler is what next is: it runs once the middleware admitted the
\* request, with the context the middleware left.
CallHandler(op) ==
    /\ rq.pc = "done" /\ rq.nextCalls = 1
    /\ sh.pc = "idle"
    /\ sh' = [NoCall EXCEPT !.op = op, !.pc = "param"]
    /\ UNCHANGED <<envVars, otpVars, rq, first>>

ShAt(op, pc) == sh.op = op /\ sh.pc = pc
ShReject(step, outcome, p) ==
    sh' = [sh EXCEPT !.pc = "done", !.resp = p,
                     !.log = Append(@, <<step, outcome>>)]
ShProceed(step, pc) ==
    sh' = [sh EXCEPT !.pc = pc, !.log = Append(@, <<step, "ok">>)]
\* The store service is called; the handler answers by how the call ended.
ShExecute(ok, code) ==
    sh' = [sh EXCEPT !.pc = "done", !.executed = @ + 1,
                     !.resp = IF ok THEN NoResponse ELSE ServerError,
                     !.code = IF ok THEN code ELSE 0,
                     !.log = Append(@, <<"service", IF ok THEN "ok" ELSE "failed">>)]

\* ---- storeHandler.UpdateName
UpdateNameParam(ok) ==
    /\ ShAt("UpdateName", "param")
    /\ IF ~ok
       THEN ShReject("param", "invalid", InvalidRequest(StatusBadRequest, IncompleteData))
       ELSE ShProceed("param", "bind")
    /\ UNCHANGED <<envVars, otpVars, rq, first>>

UpdateNameBind(ok) ==
    /\ ShAt("UpdateName", "bind")
    /\ IF ~ok
       THEN ShReject("bind", "failed",
                     InvalidRequest(StatusUnprocessableEntity, TryAgainLater))
       ELSE ShProceed("bind", "validate")
    /\ UNCHANGED <<envVars, otpVars, rq, first>>

UpdateNameValidate(ok) ==
    /\ ShAt("UpdateName", "validate")
    /\ IF ~ok
       THEN ShReject("validate", "invalid",
                     InvalidRequest(StatusBadRequest, IncompleteData))
       ELSE ShProceed("validate", "status")
    /\ UNCHANGED <<envVars, otpVars, rq, first>>

UpdateNameCheckStatus ==
    /\ ShAt("UpdateName", "status")
    /\ \E err \in CheckStatus(rq.ctx) :
         IF err # "ok"
         THEN IF err = ErrEmailNotConfirmed
              THEN ShReject("status", err,
                            Problem(StatusForbidden, "unauthorized", ConfirmYourEmail))
              ELSE ShReject("status", err, ServerError)
         ELSE ShProceed("status", "service")
    /\ UNCHANGED <<envVars, otpVars, rq, first>>

UpdateNameService(ok) ==
    /\ ShAt("UpdateName", "service")
    /\ ShExecute(ok, StatusOK)
    /\ UNCHANGED <<envVars, otpVars, rq, first>>

UpdateName ==
    \/ \E ok \in BOOLEAN : UpdateNameParam(ok)
    \/ \E ok \in BOOLEAN : UpdateNameBind(ok)
    \/ \E ok \in BOOLEAN : UpdateNameValidate(ok)
    \/ UpdateNameCheckStatus
    \/ \E ok \in BOOLEAN : UpdateNameService(ok)

\* ---- storeHandler.Delete
DeleteParam(ok) ==
    /\ ShAt("Delete", "param")
    /\ IF ~ok
       THEN ShReject("param", "invalid", InvalidRequest(StatusBadRequest, IncompleteData))
       ELSE ShProceed("param", "status")
    /\ UNCHANGED <<envVars, otpVars, rq, first>>

DeleteCheckStatus ==
    /\ ShAt("Delete", "status")
    /\ \E err \in CheckStatus(rq.ctx) :
         IF err # "ok"
         THEN IF err = ErrEmailNotConfirmed
              THEN ShReject("status", err,
                            Problem(StatusForbidden, "Unauthorized", ConfirmYourEmail))
              ELSE ShReject("status", err, ServerError)
         ELSE ShProceed("status", "service")
    /\ UNCHANGED <<envVars, otpVars, rq, first>>

DeleteService(ok) ==
    /\ ShAt("Delete", "service")
    /\ ShExecute(ok, StatusNoContent)
    /\ UNCHANGED <<envVars, otpVars, rq, first>>

StoreDelete ==
    \/ \E ok \in BOOLEAN : DeleteParam(ok)
    \/ DeleteCheckStatus
    \/ \E ok \in BOOLEAN : DeleteService(ok)

\* --------------------------------------------------------------------- OTP
OTPCodes == {"123456", "654321"}
\* lastOTP[email]: the code of the latest SaveOTP that succeeded, when it
\* expires, and the code it replaced.  otpRes: the latest call and its result.
NoOTP == [code |-> "", exp |-> 0, prev |-> ""]
OTPResult(op, email, code, err, at) ==
    [op |-> op, email |-> email, code |-> code, err |-> err, at |-> at]

\* GetOTP(email): the results the call can produce.
GetOTPResults(email, store, now) ==
    {Result(ErrStoreUnavailable, "")}
    \cup (IF Entries(Live(store, now), email) = {}
          THEN {Result(ErrOTPNotFound, "")}
          ELSE {Result("ok", e.val) : e \in Entries(Live(store, now), email)})

\* SaveOTP(email, otp): pass-through to the store's upsert.
SaveOTP(email, code, stored) ==
    /\ IF stored
       THEN /\ otps' = PutOTP(otps, email, code, OTPTTL, clock)
            /\ lastOTP' = [lastOTP EXCEPT ![email] =
                              [code |-> code, exp |-> clock + OTPTTL,
                               prev |-> lastOTP[email].code]]
            /\ otpRes' = OTPResult("SaveOTP", email, code, "ok", clock)
       ELSE /\ UNCHANGED <<otps, lastOTP>>
            /\ otpRes' = OTPResult("SaveOTP", email, code, ErrStoreUnavailable,
                                 clock)
    /\ UNCHANGED <<envVars, rq, sideVars>>

GetOTP(email) ==
    /\ \E r \in GetOTPResults(email, otps, clock) :
         otpRes' = OTPResult("GetOTP", email, r.session, r.err, clock)
    /\ UNCHANGED <<envVars, otps, lastOTP, rq, sideVars>>

\* ----------------------------------------------------------- specification
Init ==
    /\ clock = 0
    /\ sessions = {}
    /\ issued = {}
    /\ confirmed = {}
    /\ otps = {}
    /\ lastOTP = [e \in Emails |-> NoOTP]
    /\ otpRes = OTPResult("none", EmailOf(0), "", "ok", 0)
    /\ rq = NoRequest
    /\ first = NoRequest
    /\ sh = NoCall

Environment ==
    \/ Tick
    \/ \E id \in UserIDs, stored \in BOOLEAN : Create(id, stored)
    \/ \E id \in UserIDs : DeleteSession(id)
    \/ \E id \in UserIDs : ConfirmEmail(id)

Next ==
    \/ Environment
    \/ \E v \in Variants, h \in Headers : NewRequest(v, h)
    \/ CheckLoggedIn
    \/ ConfirmPassword

Spec == Init /\ [][Next]_vars

NextOTP ==
    \/ Tick
    \/ \E e \in Emails, c \in OTPCodes, stored \in BOOLEAN : SaveOTP(e, c, stored)
    \/ \E e \in Emails : GetOTP(e)

SpecOTP == Init /\ [][NextOTP]_vars

\* One request given to both middlewares: first to CheckLoggedIn, then, with
\* the same header, to ConfirmPassword; the finished first run is kept.
NewPair(h) ==
    /\ rq.pc \in {"idle", "done"}
    /\ rq' = [NoRequest EXCEPT !.variant = "CheckLoggedIn", !.header = h,
                               !.pc = "header"]
    /\ first' = NoRequest
    /\ UNCHANGED <<envVars, otpVars, sh>>

Replay ==
    /\ rq.pc = "done" /\ rq.variant = "CheckLoggedIn"
    /\ first = NoRequest
    /\ first' = rq
    /\ rq' = [NoRequest EXCEPT !.variant = "ConfirmPassword",
                               !.header = rq.header, !.pc = "header"]
    /\ UNCHANGED <<envVars, otpVars, sh>>

NextPair ==
    \/ Environment
    \/ \E h \in Headers : NewPair(h)
    \/ CheckLoggedIn
    \/ Replay
    \/ ConfirmPassword

SpecPair == Init /\ [][NextPair]_vars

\* A request through a middleware and then, when admitted, into the store
\* handler.
Serve(v, h) ==
    /\ rq.pc \in {"idle", "done"}
    /\ rq' = [NoRequest EXCEPT !.variant = v, !.header = h, !.pc = "header"]
    /\ sh' = NoCall
    /\ UNCHANGED <<envVars, otpVars, first>>

NextGate ==
    \/ Environment
    \/ \E v \in Variants, h \in Headers : Serve(v, h)
    \/ CheckLoggedIn
    \/ ConfirmPassword
    \/ \E op \in {"UpdateName", "Delete"} : CallHandler(op)
    \/ UpdateName
    \/ StoreDelete

SpecGate == Init /\ [][NextGate]_vars

\* ------------------------------------------------------------------ claims
Done == rq.pc = "done"
Has(step, outcome) == \E i \in 1..Len(rq.log) : rq.log[i] = <<step, outcome>>
Called(step) == \E i \in 1..Len(rq.log) : rq.log[i][1] = step
Rejected == Done /\ rq.resp # NoResponse

SharedSteps ==
    << <<"header", "ok">>, <<"extract", "ok">>, <<"loadkey", "ok">>,
       <<"parse", "ok">>, <<"getuser", "ok">> >>
AdmittedLog(v) ==
    IF v = "CheckLoggedIn"
    THEN SharedSteps \o << <<"status", "ok">>, <<"next", "ok">> >>
    ELSE SharedSteps \o << <<"next", "ok">> >>

\* The token can never verify, whatever the time: malformed, forged, or of
\* a signing method other than ECDSA.
NeverValid(t) == t.sig # "ours" \/ t.alg # "ES256"

AccessDenied ==
    Problem(StatusUnauthorized, "Access Denied",
            "You need to be logged in to access this resource.")
InvalidSession ==
    Problem(StatusUnauthorized, "Invalid Session",
            "Your session is invalid. Please log in again.")
EmailNotConfirmed ==
    Problem(StatusForbidden, "Email Not Confirmed",
            "You need to confirm your email address before accessing this resource.")

\* C1: in both middlewares next is invoked only after the header check, the
\* extraction, the key load, the token verification, GetUser and (in
\* CheckLoggedIn) the email-confirmation check all succeeded, in this order;
\* a rejected request never reaches next and carries no identity in its
\* context.
C1_NextOnlyAfterAllChecks ==
    /\ rq.nextCalls > 0 =>
         /\ rq.log = AdmittedLog(rq.variant)
         /\ rq.header.present /\ rq.header.wellFormed
         /\ rq.tokenString = rq.header.tok
         /\ ~NeverValid(rq.tokenString)
         /\ rq.user # NoSession
    /\ rq.ctx # {} => rq.nextCalls > 0
    /\ Rejected => rq.nextCalls = 0 /\ rq.ctx = {} /\ rq.nextSaw = {}
    /\ Done => (rq.resp = NoResponse <=> rq.nextCalls > 0)

C1_Witness ==
    /\ Done /\ rq.variant = "CheckLoggedIn"
    /\ rq.nextCalls = 1
    /\ rq.log = AdmittedLog("CheckLoggedIn")

\* C2: a request whose token verifies, whose session GetUser resolves and
\* (in CheckLoggedIn) whose email-confirmation check passes is admitted: next
\* is invoked exactly once and finds under UserKey exactly the Session that
\* GetUser returned for the request's token.
C2_AdmittedWithIdentity ==
    (/\ Done
     /\ Has("getuser", "ok")
     /\ rq.variant = "CheckLoggedIn" => Has("status", "ok"))
    => /\ rq.nextCalls = 1
       /\ rq.resp = NoResponse
       /\ rq.nextSaw = {rq.user}
       /\ rq.ctx = {<<UserKey, rq.user>>}
       /\ rq.user.UserID = rq.tokenString.sub
       /\ rq.user.Token \in issued

C2_Witness ==
    /\ Done /\ rq.variant = "ConfirmPassword"
    /\ Has("getuser", "ok")
    /\ rq.nextSaw = {rq.user}
    /\ rq.user.UserID = rq.tokenString.sub
    /\ rq.user.Token # rq.tokenString

\* C3: a request without an Authorization header is answered 401 "Access
\* Denied" by both middlewares before the key is loaded, the token verified,
\* the session service called or the account status looked up.
C3_MissingHeaderDenied ==
    (Done /\ ~rq.header.present)
    => /\ rq.resp = AccessDenied
       /\ rq.log = << <<"header", "missing">> >>
       /\ rq.nextCalls = 0

C3_Witness ==
    /\ Done /\ ~rq.header.present
    /\ rq.variant = "ConfirmPassword"
    /\ rq.resp = AccessDenied
    /\ sessions # {}

\* C4 as amended: a request whose token is malformed, forged, of a
\* non-ECDSA method, or expired when the middleware verifies it, is answered
\* 401 "Invalid Session" and GetUser is never called for it; a token that
\* expires only after that verification does reach GetUser, and when
\* GetUser refuses it the request is answered 401 without next being invoked.
C4_CryptoBeforeSession ==
    /\ Called("getuser") =>
         /\ ~NeverValid(rq.tokenString)
         /\ \E i \in 1..Len(rq.log) :
              /\ rq.log[i] = <<"parse", "ok">>
              /\ i < Len(rq.log) /\ rq.log[i + 1][1] = "getuser"
    /\ (/\ Done
        /\ Called("parse")
        /\ NeverValid(rq.tokenString) \/ Has("parse", ErrTokenExpired))
       => /\ rq.resp = InvalidSession
          /\ ~Called("getuser")
          /\ rq.nextCalls = 0
    /\ (Done /\ Has("getuser", ErrTokenInvalid))
       => /\ rq.resp.status = StatusUnauthorized
          /\ rq.nextCalls = 0

C4_Witness ==
    /\ Done /\ Called("parse")
    /\ rq.tokenString.alg = "HS256"
    /\ rq.resp = InvalidSession

\* C4 as stated: every request whose token is malformed, forged, of a
\* non-ECDSA method or expired - also one whose token expires between the
\* middleware's verification and GetUser - is answered 401 "Invalid Session"
\* and the session service is never called for it.
C4_Original ==
    (/\ Done
     /\ Called("parse")
     /\ \/ NeverValid(rq.tokenString)
        \/ Has("parse", ErrTokenExpired)
        \/ Has("getuser", ErrTokenInvalid))
    => /\ rq.resp = InvalidSession
       /\ ~Called("getuser")

SessionExpired ==
    Problem(StatusForbidden, "Session Expired",
            "Your session has expired. Please log in again to continue.")

\* C5: in both middlewares a request whose token verifies but for which
\* GetUser fails with ErrSessionNotFound is answered "Session Expired", a
\* title no failure of the token itself is answered with (those are "Invalid
\* Session"), and next is not invoked.
C5_SessionExpiredDistinct ==
    /\ (Done /\ Has("getuser", ErrSessionNotFound))
       => /\ rq.resp.title = "Session Expired"
          /\ rq.resp = SessionExpired
          /\ ~NeverValid(rq.tokenString)
          /\ rq.nextCalls = 0
          /\ rq.ctx = {}
    /\ (Done /\ (\E e \in {ErrTokenMalformed, ErrorUnexpectedMethod,
                           ErrTokenExpired, ErrSignatureInvalid} :
                   Has("parse", e)))
       => /\ rq.resp.title = "Invalid Session"
          /\ rq.resp.title # "Session Expired"
    /\ (Done /\ rq.resp.title = "Session Expired")
       => Has("getuser", ErrSessionNotFound)

C5_Witness ==
    /\ Done /\ Has("getuser", ErrSessionNotFound)
    /\ rq.tokenString \in issued
    /\ Verify(rq.tokenString, clock) = "ok"
    /\ Entries(sessions, rq.tokenString.sub) = {}
    /\ rq.resp.title = "Session Expired"

\* The failure a rejected request ended with, and the status the failure
\* classes are to be answered with: 401 for a missing, invalid or expired
\* token or session, 403 for the status gate, 500 for the infrastructure.
LastEntry == rq.log[Len(rq.log)]
ClassStatus(entry) ==
    IF entry[1] \in {"header", "extract", "parse"} THEN StatusUnauthorized
    ELSE IF entry[1] = "loadkey" THEN StatusInternalServerError
    ELSE IF entry[1] = "getuser"
         THEN IF entry[2] \in {ErrTokenInvalid, ErrSessionNotFound}
              THEN StatusUnauthorized ELSE StatusInternalServerError
    ELSE IF entry[2] = ErrEmailNotConfirmed THEN StatusForbidden
    ELSE StatusInternalServerError

\* C6: the status of every rejection follows the class of the failure: 401
\* for a missing, invalid or expired token or session, 403 only for an
\* authenticated principal failing the status gate, 500 only for a failure
\* of the key load or of the store.
C6_StatusByFailureClass ==
    Rejected => rq.resp.status = ClassStatus(LastEntry)

\* C7: when GetUser fails because the store is unreachable or timed out, the
\* middleware answers 500 and never 401.
C7_StoreFailureIs500 ==
    (Done /\ Has("getuser", ErrStoreUnavailable))
    => rq.resp.status = StatusInternalServerError

\* C8: CheckLoggedIn answers a request with a valid token and a live session
\* of an account whose email is not confirmed with 403 "Email Not Confirmed"
\* and does not invoke next; ConfirmPassword admits the same request, never
\* looking at the account status.
C8_EmailGateOnlyInCheckLoggedIn ==
    /\ (/\ Done /\ rq.variant = "CheckLoggedIn"
        /\ Has("getuser", "ok")
        /\ rq.user.UserID \notin confirmed)
       => /\ rq.resp = EmailNotConfirmed
          /\ rq.nextCalls = 0
          /\ rq.ctx = {}
    /\ (Done /\ Has("status", ErrEmailNotConfirmed))
       => /\ rq.resp = EmailNotConfirmed
          /\ rq.nextCalls = 0
    /\ (/\ Done /\ rq.variant = "ConfirmPassword"
        /\ Has("getuser", "ok"))
       => /\ rq.nextCalls = 1
          /\ rq.nextSaw = {rq.user}
          /\ ~Called("status")

C8_Witness ==
    /\ Done /\ rq.variant = "CheckLoggedIn"
    /\ Has("status", ErrEmailNotConfirmed)
    /\ rq.user.UserID \notin confirmed
    /\ rq.user.UserID = rq.tokenString.sub
    /\ rq.resp = EmailNotConfirmed

C8_WitnessConfirmPassword ==
    /\ Done /\ rq.variant = "ConfirmPassword"
    /\ Has("getuser", "ok")
    /\ rq.user.UserID \notin confirmed
    /\ rq.nextCalls = 1

\* The latest token issued for a subject.
IssuedFor(id) == {t \in issued : t.sub = id}
Newest(id) == CHOOSE t \in IssuedFor(id) : \A o \in IssuedFor(id) : o.n <= t.n

C9_Resolution ==
    /\ \A id \in UserIDs : Cardinality(Entries(sessions, id)) <= 1
    /\ \A e \in sessions :
         /\ e.val.UserID = e.key
         /\ e.val = Session(User(e.key), Newest(e.key))
    /\ \A t \in issued : \A r \in GetUser(t, sessions, clock) :
         r.err = "ok" =>
           /\ r.session.UserID = t.sub
           /\ r.session.Token = Newest(t.sub)
           /\ t # Newest(t.sub) => r.session # Session(User(t.sub), t)

C9_AfterCreate ==
    \A t \in issued' \ issued :
      /\ Result("ok", Session(User(t.sub), t)) \in GetUser(t, sessions', clock')
      /\ \A r \in GetUser(t, sessions', clock') :
           r.err \in {"ok", ErrStoreUnavailable}

\* C9: GetUser with the token a Create just returned yields a Session whose
\* UserID is the user's; the store holds at most one session per subject,
\* the one of the latest Create, so after a second Create for the same user
\* the first token no longer resolves to the session it was created with.
C9_CreateThenGetUser == []C9_Resolution /\ [][C9_AfterCreate]_vars

C9_Witness ==
    \E t \in issued :
      /\ t # Newest(t.sub)
      /\ Verify(t, clock) = "ok"
      /\ Result("ok", Session(User(t.sub), Newest(t.sub)))
           \in GetUser(t, sessions, clock)

\* The OTP entries of an email that are live now.
LiveOTPs(email) == Entries(Live(otps, clock), email)

\* C10: after any SaveOTP, GetOTP and TTL expiries at most one OTP is live
\* per email; GetOTP returns the code of the latest SaveOTP for the email
\* that was stored, never an earlier one, and ErrOTPNotFound when none is
\* live (a call the store does not answer returns neither).
C10_OneLiveOTP ==
    /\ \A email \in Emails :
         /\ Cardinality(LiveOTPs(email)) <= 1
         /\ \A r \in GetOTPResults(email, otps, clock) :
              /\ r.err = "ok" =>
                   /\ lastOTP[email].exp > clock
                   /\ r.session = lastOTP[email].code
              /\ r.err = ErrOTPNotFound => lastOTP[email].exp <= clock
    /\ (otpRes.op = "GetOTP" /\ otpRes.err = "ok") =>
         /\ otpRes.code = lastOTP[otpRes.email].code
         /\ lastOTP[otpRes.email].exp > otpRes.at
    /\ (otpRes.op = "GetOTP" /\ otpRes.err = ErrOTPNotFound) =>
         lastOTP[otpRes.email].exp <= otpRes.at

C10_Witness ==
    /\ otpRes.op = "GetOTP" /\ otpRes.err = "ok"
    /\ lastOTP[otpRes.email].prev \notin {"", otpRes.code}
    /\ otpRes.code = lastOTP[otpRes.email].code
    /\ otpRes.at = clock

\* The outcomes of the steps the two middlewares share, as a run logged them.
IsShared(entry) ==
    entry[1] \in {"header", "extract", "loadkey", "parse", "getuser"}
SharedPart(log) == SelectSeq(log, IsShared)

\* Both runs of one request are finished and met the same outcomes of the
\* header check, extraction, key load, token verification and GetUser.
Paired ==
    /\ first.pc = "done" /\ first.variant = "CheckLoggedIn"
    /\ Done /\ rq.variant = "ConfirmPassword"
    /\ first.header = rq.header
    /\ SharedPart(first.log) = SharedPart(rq.log)
    /\ first.user = rq.user

\* C11: for every request and every outcome of the shared steps,
\* CheckLoggedIn and ConfirmPassword produce the same response (status, title
\* and detail) when the request is rejected in the shared steps, and both
\* admit it with the same identity when CheckLoggedIn's status check passes.
C11_OneFlow ==
    Paired =>
      /\ rq.resp # NoResponse => first.resp = rq.resp
      /\ first.nextCalls = 1 =>
           /\ rq.nextCalls = 1
           /\ rq.nextSaw = first.nextSaw
           /\ rq.ctx = first.ctx

\* What does hold of the two: the same status and title on every shared
\* rejection, and the same admission.
C11_SameStatusAndTitle ==
    Paired =>
      /\ rq.resp # NoResponse =>
           /\ first.resp.status = rq.resp.status
           /\ first.resp.title = rq.resp.title
           /\ (first.resp.detail # rq.resp.detail
                 => SharedPart(rq.log)[Len(SharedPart(rq.log))][1] = "loadkey")
      /\ first.nextCalls = 1 =>
           /\ rq.nextCalls = 1
           /\ rq.nextSaw = first.nextSaw

C11_PairAdmitted ==
    /\ Paired
    /\ first.nextCalls = 1 /\ rq.nextCalls = 1
    /\ rq.nextSaw = first.nextSaw

\* ---- C12
ShDone == sh.pc = "done"
ShHas(step, outcome) == \E i \in 1..Len(sh.log) : sh.log[i] = <<step, outcome>>
ShNotConfirmed403 == sh.resp # NoResponse /\ sh.resp.status = StatusForbidden

\* The store handler's half: in UpdateName and Delete a lookup failure other
\* than the not-confirmed one is answered 500, the 403 is answered only for
\* the not-confirmed one, and the store service is not called in either case.
C12_StoreHandlerPart ==
    ShDone =>
      /\ ShHas("status", ErrLookupFailed) =>
            /\ sh.resp = ServerError
            /\ sh.executed = 0
      /\ ShNotConfirmed403 => ShHas("status", ErrEmailNotConfirmed)
      /\ ShHas("status", ErrEmailNotConfirmed) =>
            /\ ShNotConfirmed403
            /\ sh.executed = 0

\* CheckLoggedIn's half: the same three statements about the middleware.
C12_MiddlewarePart ==
    (Done /\ rq.variant = "CheckLoggedIn") =>
      /\ Has("status", ErrLookupFailed) =>
            /\ rq.resp # NoResponse
            /\ rq.resp.status = StatusInternalServerError
            /\ rq.nextCalls = 0
      /\ rq.resp = EmailNotConfirmed => Has("status", ErrEmailNotConfirmed)
      /\ Has("status", ErrEmailNotConfirmed) =>
            /\ rq.resp = EmailNotConfirmed
            /\ rq.nextCalls = 0

\* C12: a failure of the user-status lookup other than EmailNotConfirmed is
\* answered with a 500-class status and never with the 403 email-not-confirmed
\* rejection, that rejection is answered only when the lookup reports
\* EmailNotConfirmed, and the protected operation does not run when the lookup
\* fails; in CheckLoggedIn and in the store handler's UpdateName and Delete.
C12_LookupFailureIs500 == C12_MiddlewarePart /\ C12_StoreHandlerPart

\* In CheckLoggedIn the protected operation does not run when the lookup
\* fails, whatever the answer is.
C12_NextNotCalledOnFailure ==
    (Done /\ rq.variant = "CheckLoggedIn"
          /\ (Has("status", ErrLookupFailed) \/ Has("status", ErrEmailNotConfirmed)))
      => rq.nextCalls = 0

\* A lookup failure in CheckLoggedIn answered as email-not-confirmed.
C12_LookupFailureAs403 ==
    /\ Done /\ rq.variant = "CheckLoggedIn"
    /\ Has("status", ErrLookupFailed)
    /\ rq.resp = EmailNotConfirmed

\* A lookup failure in the store handler answered 500, nothing executed.
C12_HandlerLookupFailure ==
    /\ ShDone /\ ShHas("status", ErrLookupFailed)
    /\ sh.resp = ServerError /\ sh.executed = 0

====
